---- MODULE Spec2Model ----
(***************************************************************************)
(* putty-like.py: an interactive duplex terminal bridge.                   *)
(*                                                                         *)
(* The model has the two threads of the program: the reader thread         *)
(* (read_serial, over the telnet SockWrapper or over the serial port) and  *)
(* the main thread (terminal setup, the get_char loop, the finally block). *)
(* Bytes are integers 0..255, byte strings are sequences of them.          *)
(***************************************************************************)
EXTENDS Integers, Sequences, FiniteSets, TLC

(* ---------------------------------------------------------------------- *)
(* Bounds of the model                                                     *)
(* ---------------------------------------------------------------------- *)
\* longest inbound stream enumerated exhaustively over Bytes
MaxWire == 3
\* longest sequence of console events enumerated exhaustively over Events
MaxSize == 2
MaxKeys == 2

(* ---------------------------------------------------------------------- *)
(* Telnet wire constants (the literals of SockWrapper.read)                *)
(* ---------------------------------------------------------------------- *)
IAC  == 255
DONT == 254
DO   == 253
WONT == 252
WILL == 251
SB   == 250
SE   == 240
ECHO == 1
SGA  == 3
LF   == 10
CR   == 13
\* size argument of ser.read in read_serial, and of sock.recv
ReadSize == 4096

\* the simple (no option) commands of SockWrapper.read
SimpleCmds == 241..249
OptCmds == {DO, DONT, WILL, WONT}

Drop(s, n) == SubSeq(s, n + 1, Len(s))

Min(S) == CHOOSE x \in S : \A y \in S : x <= y

(* ---------------------------------------------------------------------- *)
(* SockWrapper.read, one iteration of the parsing loop                     *)
(* ---------------------------------------------------------------------- *)

\* Reply with every DO accepted
Reply_AcceptAll(cmd, opt) ==
    IF cmd = DO THEN << <<IAC, WILL, opt>> >>
    ELSE IF cmd = WILL
      THEN IF opt = SGA THEN << <<IAC, DO, opt>> >>
                        ELSE << <<IAC, DONT, opt>> >>
    ELSE IF cmd = DONT THEN << <<IAC, WONT, opt>> >>
    ELSE << >>

\* Reply without the DONT branch
Reply_SilentDont(cmd, opt) ==
    IF cmd = DO
      THEN IF opt \in {ECHO, SGA} THEN << <<IAC, WILL, opt>> >>
                                  ELSE << <<IAC, WONT, opt>> >>
    ELSE IF cmd = WILL
      THEN IF opt = SGA THEN << <<IAC, DO, opt>> >>
                        ELSE << <<IAC, DONT, opt>> >>
    ELSE << >>

\* the reply sent for IAC cmd opt: a sequence of zero or one byte strings
Reply(cmd, opt) ==
    IF cmd = DO
      THEN IF opt \in {ECHO, SGA} THEN << <<IAC, WILL, opt>> >>
                                  ELSE << <<IAC, WONT, opt>> >>
    ELSE IF cmd = WILL
      THEN IF opt = SGA THEN << <<IAC, DO, opt>> >>
                        ELSE << <<IAC, DONT, opt>> >>
    ELSE IF cmd = DONT
      THEN << <<IAC, WONT, opt>> >>
    ELSE << >>

\* the scan for IAC SE: the 0-based index of the first IAC followed by SE
\* at index 2 or later, -1 when there is none
FindSE(b) ==
    LET hits == {i \in 2..(Len(b) - 2) : b[i + 1] = IAC /\ b[i + 2] = SE}
    IN  IF hits = {} THEN -1 ELSE Min(hits)

\* the outcome of one iteration of the while loop:
\*   buf   the pending buffer after the iteration
\*   emit  the bytes appended to out
\*   reply the byte strings handed to sock.send (before buf is advanced)
\*   brk   TRUE when the iteration leaves the loop with break
Stay(b) == [buf |-> b, emit |-> << >>, reply |-> << >>, brk |-> TRUE]

Skip(b, n, emit, reply) ==
    [buf |-> Drop(b, n), emit |-> emit, reply |-> reply, brk |-> FALSE]

\* Literal255 advancing by one byte only
Literal255_SkipOne(b) == Skip(b, 1, <<IAC>>, << >>)

\* lines 178-181: IAC IAC is one literal 255
Literal255(b) == Skip(b, 2, <<IAC>>, << >>)

\* lines 187-206: IAC DO/DONT/WILL/WONT opt with the option byte present
Negotiate(b) == Skip(b, 3, << >>, Reply(b[2], b[3]))

\* Subnegotiation that stops one byte short, before the SE
Subnegotiation_KeepSE(b) ==
    IF FindSE(b) >= 0 THEN Skip(b, FindSE(b) + 1, << >>, << >>) ELSE Stay(b)

\* lines 208-219: IAC SB ... IAC SE
Subnegotiation(b) ==
    IF FindSE(b) >= 0 THEN Skip(b, FindSE(b) + 2, << >>, << >>) ELSE Stay(b)

\* UnknownIAC that leaves the buffer as it is
UnknownIAC_Keep(b) == Skip(b, 0, << >>, << >>)

\* lines 223-225: any other byte after IAC: the IAC alone is dropped
UnknownIAC(b) == Skip(b, 1, << >>, << >>)

\* one iteration of the while loop on a non-empty pending buffer b
ReadStep(b) ==
    IF b[1] # IAC THEN Skip(b, 1, <<b[1]>>, << >>)
    ELSE IF Len(b) < 2 THEN Stay(b)
    ELSE IF b[2] = IAC THEN Literal255(b)
    ELSE IF b[2] \in SimpleCmds THEN Skip(b, 2, << >>, << >>)
    ELSE IF b[2] \in OptCmds /\ Len(b) >= 3 THEN Negotiate(b)
    ELSE IF b[2] = SB THEN Subnegotiation(b)
    ELSE IF b[2] = SE THEN Skip(b, 2, << >>, << >>)
    ELSE UnknownIAC(b)

\* LoopCond that lets one byte more into out
LoopCond_OneMore(o, b, n) == Len(o) <= n /\ b # << >>

\* the condition of the while loop
LoopCond(o, b, size) == Len(o) < size /\ b # << >>

\* the whole loop, run to its end with every send succeeding:
\* the bytes returned, the replies sent and the pending buffer left
RECURSIVE ReadLoop(_, _, _, _)
ReadLoop(b, o, r, size) ==
    IF ~LoopCond(o, b, size)
      THEN [out |-> o, replies |-> r, buf |-> b]
      ELSE LET s == ReadStep(b)
           IN  IF s.brk
                 THEN [out |-> o, replies |-> r, buf |-> b]
                 ELSE ReadLoop(s.buf, o \o s.emit, r \o s.reply, size)

(* ---------------------------------------------------------------------- *)
(* read_serial: the newline normalisation of the telnet branch             *)
(* ---------------------------------------------------------------------- *)
\* Normalize that keeps the carriage returns
RECURSIVE Normalize_KeepCR(_)
Normalize_KeepCR(d) ==
    IF d = << >> THEN << >>
    ELSE IF d[1] = LF THEN <<CR, LF>> \o Normalize_KeepCR(Tail(d))
    ELSE <<d[1]>> \o Normalize_KeepCR(Tail(d))

RECURSIVE Normalize(_)
Normalize(d) ==
    IF d = << >> THEN << >>
    ELSE IF d[1] = LF THEN <<CR, LF>> \o Normalize(Tail(d))
    ELSE IF d[1] = CR THEN Normalize(Tail(d))
    ELSE <<d[1]>> \o Normalize(Tail(d))

(* ---------------------------------------------------------------------- *)
(* get_char and the key handling of main                                   *)
(* ---------------------------------------------------------------------- *)
ESC == 27

\* ext_map of get_char: Windows scan code -> escape sequence (character codes)
ext_map ==
    (59 :> <<ESC, 79, 80>>)          @@ (60 :> <<ESC, 79, 81>>) @@
    (61 :> <<ESC, 79, 82>>)          @@ (62 :> <<ESC, 79, 83>>) @@
    (63 :> <<ESC, 91, 49, 53, 126>>) @@ (64 :> <<ESC, 91, 49, 55, 126>>) @@
    (65 :> <<ESC, 91, 49, 56, 126>>) @@ (66 :> <<ESC, 91, 49, 57, 126>>) @@
    (67 :> <<ESC, 91, 50, 48, 126>>) @@ (68 :> <<ESC, 91, 50, 49, 126>>) @@
    (133 :> <<ESC, 91, 50, 51, 126>>) @@ (134 :> <<ESC, 91, 50, 52, 126>>) @@
    (72 :> <<ESC, 91, 65>>)          @@ (80 :> <<ESC, 91, 66>>) @@
    (75 :> <<ESC, 91, 68>>)          @@ (77 :> <<ESC, 91, 67>>) @@
    (71 :> <<ESC, 91, 49, 126>>)     @@ (79 :> <<ESC, 91, 52, 126>>) @@
    (73 :> <<ESC, 91, 53, 126>>)     @@ (81 :> <<ESC, 91, 54, 126>>) @@
    (82 :> <<ESC, 91, 50, 126>>)     @@ (83 :> <<ESC, 91, 51, 126>>)

\* A console event is [k, c]:
\*   k = "ch"   one character with code c is read
\*   k = "ext"  (Windows) the prefix 0x00/0xe0 followed by scan code c
\*   k = "int"  SIGINT arrives while get_char waits (KeyboardInterrupt)
\*   k = "err"  the read of the console raises another exception
\* get_char that returns the scan code of an unmapped extended key
get_char_RawScan(win, ev) ==
    IF ev.k = "int" THEN [exc |-> "KeyboardInterrupt", ch |-> << >>]
    ELSE IF ev.k = "err" THEN [exc |-> "Exception", ch |-> << >>]
    ELSE IF win /\ ev.k = "ext"
      THEN [exc |-> "none",
            ch  |-> IF ev.c \in DOMAIN ext_map THEN ext_map[ev.c]
                                                ELSE <<ev.c>>]
    ELSE IF ev.c = 3 THEN [exc |-> "KeyboardInterrupt", ch |-> << >>]
    ELSE [exc |-> "none", ch |-> IF ev.c = CR THEN <<LF>> ELSE <<ev.c>>]

\* get_char that returns Ctrl-C as an ordinary character
get_char_CtrlCAsChar(win, ev) ==
    IF ev.k = "int" THEN [exc |-> "KeyboardInterrupt", ch |-> << >>]
    ELSE IF ev.k = "err" THEN [exc |-> "Exception", ch |-> << >>]
    ELSE IF win /\ ev.k = "ext"
      THEN [exc |-> "none",
            ch  |-> IF ev.c \in DOMAIN ext_map THEN ext_map[ev.c] ELSE << >>]
    ELSE [exc |-> "none", ch |-> IF ev.c = CR THEN <<LF>> ELSE <<ev.c>>]

\* get_char: the exception raised ("none" when it returns) and the string
\* returned, as a sequence of character codes
get_char(win, ev) ==
    IF ev.k = "int" THEN [exc |-> "KeyboardInterrupt", ch |-> << >>]
    ELSE IF ev.k = "err" THEN [exc |-> "Exception", ch |-> << >>]
    ELSE IF win /\ ev.k = "ext"
      THEN [exc |-> "none",
            ch  |-> IF ev.c \in DOMAIN ext_map THEN ext_map[ev.c] ELSE << >>]
    ELSE IF ev.c = 3 THEN [exc |-> "KeyboardInterrupt", ch |-> << >>]
    ELSE [exc |-> "none", ch |-> IF ev.c = CR THEN <<LF>> ELSE <<ev.c>>]

\* ch.encode('ascii', 'ignore'): the characters outside ASCII are dropped
EncodeAscii(ch) ==
    LET IsAscii(c) == c < 128 IN SelectSeq(ch, IsAscii)

\* lines 272-277: the bytes sent on Enter for the lineending argument
LineEndingBytes(le) ==
    IF le = "CR" THEN <<CR>>
    ELSE IF le = "CRLF" THEN <<CR, LF>>
    ELSE <<LF>>

\* KeyAction that echoes the newline for every transport
KeyAction_EchoAlways(ch, tn, leb) ==
    IF ch \in {<<127>>, <<8>>}
      THEN [w |-> <<8>>, echo |-> <<8, 32, 8>>]
    ELSE IF ch = <<LF>>
      THEN [w |-> leb, echo |-> <<LF>>]
    ELSE [w |-> EncodeAscii(ch), echo |-> << >>]

\* KeyAction that takes only DEL for a backspace
KeyAction_DelOnly(ch, tn, leb) ==
    IF ch = <<127>>
      THEN [w |-> <<8>>, echo |-> <<8, 32, 8>>]
    ELSE IF ch = <<LF>>
      THEN [w |-> leb, echo |-> IF ~tn THEN <<LF>> ELSE << >>]
    ELSE [w |-> EncodeAscii(ch), echo |-> << >>]

\* One pass of the body of the main loop for the string ch:
\*   w     the bytes handed to ser.write
\*   echo  the bytes then written to stdout
\* KeyAction that writes a character string one byte at a time and is
\* cut off behind the first
KeyAction_FirstByte(ch, tn, leb) ==
    IF ch \in {<<127>>, <<8>>}
      THEN [w |-> <<8>>, echo |-> <<8, 32, 8>>]
    ELSE IF ch = <<LF>>
      THEN [w |-> leb, echo |-> IF ~tn THEN <<LF>> ELSE << >>]
    ELSE [w |-> SubSeq(EncodeAscii(ch), 1, 1), echo |-> << >>]

KeyAction(ch, tn, leb) ==
    IF ch \in {<<127>>, <<8>>}
      THEN [w |-> <<8>>, echo |-> <<8, 32, 8>>]
    ELSE IF ch = <<LF>>
      THEN [w |-> leb, echo |-> IF ~tn THEN <<LF>> ELSE << >>]
    ELSE [w |-> EncodeAscii(ch), echo |-> << >>]

(* ---------------------------------------------------------------------- *)
(* State                                                                   *)
(* ---------------------------------------------------------------------- *)
VARIABLES
    telnet,             \* ser.telnet: the negotiating transport is in use
    size,               \* the size argument of ser.read in read_serial
    is_win,             \* sys.platform.startswith('win')
    lineending,         \* the lineending argument (serial mode), "-" in telnet
    line_ending_bytes,  \* the bytes sent on Enter
    wire,               \* bytes sent by the peer, not yet received
    raw,                \* all bytes received so far (history)
    chan,               \* "open", "peerclosed" (peer gone), "closed" (close())
    buf,                \* SockWrapper._buf, the pending buffer
    out,                \* the local out of the read in progress
    data,               \* the value returned by the last read
    rpc,                \* position of the reader thread
    returned,           \* all bytes returned by read so far (history)
    sent,               \* byte strings accepted by sock.send / ser.write
    display,            \* bytes written to stdout
    msgs,               \* messages printed (print calls)
    console,            \* console events to come
    events,             \* console events consumed (history)
    mpc,                \* position of the main thread
    termMode,           \* the mode of the terminal
    old_term_settings,  \* the mode saved by main
    calls               \* how often teardown restored the mode and closed

vars == <<telnet, size, is_win, lineending, line_ending_bytes, wire, raw, chan,
          buf, out, data, rpc, returned, sent, display, msgs, console, events,
          mpc, termMode, old_term_settings, calls>>

cfgVars  == <<telnet, size, is_win, lineending, line_ending_bytes>>
readVars == <<buf, out, data, rpc, returned, raw, wire>>
mainVars == <<console, events, mpc, termMode, old_term_settings, calls>>

(* ---------------------------------------------------------------------- *)
(* Inputs                                                                  *)
(* ---------------------------------------------------------------------- *)
\* inbound bytes, one of every class SockWrapper.read and read_serial tell
\* apart: 1 and 3 (plain data, or the options ECHO and SGA), the two
\* newline bytes (plain data, or any other option) and the command bytes
Bytes == {ECHO, SGA, LF, CR, SE, 241, SB, WILL, WONT, DO, DONT, IAC}

SeqsUpTo(S, n) == UNION {[1..k -> S] : k \in 0..n}

\* longer streams of the specification's scenarios
ScenarioStreams ==
    { <<65, IAC, DO, ECHO, 66>>,
      <<IAC, SB, 24, 1, IAC, SE, 65>>,
      <<IAC, SB, SE, IAC, IAC, SE, LF>>,
      <<65, LF, CR, LF, 66>> }

Streams == SeqsUpTo(Bytes, MaxWire) \cup ScenarioStreams

Ev(k, c) == [k |-> k, c |-> c]

\* 'a', a non-ASCII character, DEL, BS, CR, LF, Ctrl-C; SIGINT; a failing read
UnixEvents ==
    {Ev("ch", c) : c \in {97, 233, 127, 8, CR, LF, 3}}
        \cup {Ev("int", 0), Ev("err", 0)}

\* Windows also has the extended keys: Up, F5 and an unmapped scan code
WinEvents == UnixEvents \cup {Ev("ext", c) : c \in {72, 63, 1}}

ScenarioConsoles ==
    { <<Ev("ch", 104), Ev("ch", 101), Ev("ch", 108), Ev("ch", 108),
        Ev("ch", 111), Ev("ch", CR)>> }

Consoles(win) ==
    SeqsUpTo(IF win THEN WinEvents ELSE UnixEvents, MaxKeys)
        \cup ScenarioConsoles

LineEndings == {"CR", "LF", "CRLF", "XX"}

(* ---------------------------------------------------------------------- *)
(* Initial states                                                          *)
(* ---------------------------------------------------------------------- *)
Tagged(src, bs) == [src |-> src, bytes |-> bs]

\* SockWrapper.__init__: IAC WONT ECHO and IAC DO SGA are sent
InitSent(tn) ==
    IF tn THEN << Tagged("init", <<IAC, WONT, ECHO>>),
                  Tagged("init", <<IAC, DO, SGA>>) >>
          ELSE << >>

\* main up to line 288: the transport is open, the line ending is chosen
InitConfig ==
    /\ telnet \in BOOLEAN
    /\ is_win \in BOOLEAN
    /\ IF telnet
         THEN lineending = "-" /\ line_ending_bytes = <<CR>>
         ELSE /\ lineending \in LineEndings
              /\ line_ending_bytes = LineEndingBytes(lineending)

InitRest ==
    /\ raw = << >>
    /\ buf = << >> /\ out = << >> /\ data = << >> /\ returned = << >>
    /\ sent = InitSent(telnet)
    /\ display = << >> /\ msgs = << >>
    /\ events = << >>
    /\ calls = [restore |-> 0, close |-> 0]

\* the session at line 289: nothing about the terminal is changed yet
InitMain ==
    /\ mpc = "start" /\ rpc = "unstarted"
    /\ termMode = "cooked" /\ old_term_settings = "unset"

\* the session once the loop of main is entered with the reader running
InitRunning ==
    /\ mpc = "loop" /\ rpc = "poll"
    /\ termMode = IF is_win THEN "cooked" ELSE "raw"
    /\ old_term_settings = IF is_win THEN "unset" ELSE "cooked"

(* ---------------------------------------------------------------------- *)
(* The reader thread: read_serial over the telnet SockWrapper              *)
(* ---------------------------------------------------------------------- *)
\* SockWrapper.in_waiting
in_waiting == IF telnet /\ Len(buf) > 0 THEN Len(buf) ELSE 1

Alive == mpc # "exit"

\* SendOk that puts the newest byte string first
SendOk_Prepend(src, bs) ==
    /\ chan # "closed"
    /\ sent' = <<Tagged(src, bs)>> \o sent

\* sock.send(bs) from source src: accepted, or it raises (never accepted on
\* a closed socket, always accepted on an open one)
SendOk(src, bs) ==
    /\ chan # "closed"
    /\ sent' = Append(sent, Tagged(src, bs))

SendRaises == chan # "open"

\* write that empties the pending buffer
write_Flush(bs) ==
    /\ SendOk("write", bs)
    /\ buf' = << >>
    /\ UNCHANGED <<out, data, rpc, returned, raw, wire>>

\* lines 142-143, SockWrapper.write: the bytes go to sock.send, nothing of
\* the reading side is touched
write(bs) ==
    /\ SendOk("write", bs)
    /\ UNCHANGED readVars

\* lines 227-231, SockWrapper.close: sock.close() inside try/except pass
close(c) == [chan |-> "closed", raised |-> FALSE]

\* lines 29-33 and 157-164: select, then read(4096) receives what has
\* arrived (any prefix of the bytes in flight, nothing when recv raises)
RRecv ==
    /\ Alive /\ telnet /\ rpc = "poll" /\ chan # "closed"
    /\ \E k \in 0..Len(wire) :
         /\ ~(k = 0 /\ in_waiting = 0)
         /\ k <= ReadSize
         /\ buf' = buf \o SubSeq(wire, 1, k)
         /\ raw' = raw \o SubSeq(wire, 1, k)
         /\ wire' = Drop(wire, k)
    /\ out' = << >>
    /\ rpc' = "parse"
    /\ UNCHANGED <<cfgVars, mainVars, chan, data, returned, sent, display,
                   msgs>>

\* lines 166-225: one iteration of the loop that does not break; a reply is
\* sent before the buffer is advanced, and a send that raises ends the read
RIter ==
    /\ Alive /\ rpc = "parse"
    /\ LoopCond(out, buf, size)
    /\ LET s == ReadStep(buf)
       IN  /\ ~s.brk
           /\ \/ /\ s.reply = << >>
                 /\ UNCHANGED sent
                 /\ buf' = s.buf /\ out' = out \o s.emit /\ rpc' = "parse"
              \/ /\ s.reply # << >>
                 /\ SendOk("read", s.reply[1])
                 /\ buf' = s.buf /\ out' = out \o s.emit /\ rpc' = "parse"
              \/ /\ s.reply # << >>
                 /\ SendRaises
                 /\ UNCHANGED <<sent, buf, out>>
                 /\ rpc' = "raised"
    /\ UNCHANGED <<cfgVars, mainVars, chan, data, returned, raw, wire,
                   display, msgs>>

\* line 226: the loop is left (condition false or break) and out is returned
RReturn ==
    /\ Alive /\ rpc = "parse"
    /\ IF LoopCond(out, buf, size) THEN ReadStep(buf).brk ELSE TRUE
    /\ data' = out
    /\ returned' = returned \o out
    /\ rpc' = "show"
    /\ UNCHANGED <<cfgVars, mainVars, chan, buf, out, raw, wire, sent,
                   display, msgs>>

\* lines 64-71: data.decode('utf-8', errors='replace') of the serial branch,
\* as character codes; every byte of 240..255 is an invalid start byte (no
\* continuation byte 128..191 follows it here) and becomes U+FFFD
Decode(d) == [i \in 1..Len(d) |-> IF d[i] < 128 THEN d[i] ELSE 65533]

\* lines 44-71: the data is normalised (telnet) or decoded (serial) and
\* written to stdout
RDisplay ==
    /\ Alive /\ rpc = "show"
    /\ display' = display \o
                    (IF telnet THEN Normalize(data) ELSE Decode(data))
    /\ rpc' = "poll"
    /\ UNCHANGED <<cfgVars, mainVars, chan, buf, out, data, returned, raw,
                   wire, sent, msgs>>

\* lines 74-75: an exception out of read ends the reader thread
RExcept ==
    /\ Alive /\ rpc = "raised"
    /\ msgs' = Append(msgs, "Error reading port")
    /\ rpc' = "dead"
    /\ UNCHANGED <<cfgVars, mainVars, chan, buf, out, data, returned, raw,
                   wire, sent, display>>

\* the peer closes or resets the connection
PeerClose ==
    /\ Alive /\ chan = "open"
    /\ chan' = "peerclosed"
    /\ UNCHANGED <<cfgVars, mainVars, readVars, sent, display, msgs>>

(* ---------------------------------------------------------------------- *)
(* The telnet reader alone: no console input arrives                       *)
(* ---------------------------------------------------------------------- *)
\* the reader is running; the peer has sent a stream and may have closed the
\* connection behind it, the stream still being in flight
InitIn ==
    /\ InitConfig /\ telnet /\ ~is_win
    /\ size = ReadSize
    /\ InitRest /\ InitRunning
    /\ chan \in {"open", "peerclosed"}
    /\ wire \in Streams
    /\ console = << >>

NextIn == RRecv \/ RIter \/ RReturn \/ RDisplay \/ RExcept

SpecIn == InitIn /\ [][NextIn]_vars

(* ---------------------------------------------------------------------- *)
(* The telnet reader calling read with a small size                        *)
(* ---------------------------------------------------------------------- *)
\* read(self, size=1) serves any size; read_serial passes 4096, which no
\* stream explored here fills, so the loop of read_serial is also run with
\* the size argument drawn from 1..MaxSize
SizedStreams == SeqsUpTo({ECHO, LF, IAC, WILL}, MaxWire)

InitSized ==
    /\ InitConfig /\ telnet /\ ~is_win
    /\ size \in 1..MaxSize
    /\ InitRest /\ InitRunning
    /\ chan = "open"
    /\ wire \in SizedStreams
    /\ console = << >>

NextSized == RRecv \/ RIter \/ RReturn \/ RDisplay

\* the reader thread keeps being scheduled: select returns after 0.1 s
SpecSized == InitSized /\ [][NextSized]_vars /\ WF_vars(NextSized)

(* ---------------------------------------------------------------------- *)
(* The main thread: lines 289-335                                          *)
(* ---------------------------------------------------------------------- *)
\* lines 290-294: on Unix the terminal settings are saved
MSave ==
    /\ mpc = "start"
    /\ IF is_win
         THEN mpc' = "thread" /\ UNCHANGED old_term_settings
         ELSE mpc' = "cbreak" /\ old_term_settings' = termMode
    /\ UNCHANGED <<cfgVars, readVars, chan, sent, display, msgs, console,
                   events, calls, termMode>>

\* line 296: tty.setcbreak
MSetCbreak ==
    /\ mpc = "cbreak"
    /\ termMode' = "cbreak"
    /\ mpc' = "noecho"
    /\ UNCHANGED <<cfgVars, readVars, chan, sent, display, msgs, console,
                   events, calls, old_term_settings>>

\* lines 298-300: ECHO is cleared; the calls are outside the try block, an
\* exception raised here ends the process
MNoEcho ==
    /\ mpc = "noecho"
    /\ \/ termMode' = "raw" /\ mpc' = "thread"
       \/ UNCHANGED termMode /\ mpc' = "exit"
    /\ UNCHANGED <<cfgVars, readVars, chan, sent, display, msgs, console,
                   events, calls, old_term_settings>>

\* lines 302-303: the reader thread is created and started, outside the try
\* block; an exception raised here ends the process
MStartThread ==
    /\ mpc = "thread"
    /\ \/ rpc' = "poll" /\ mpc' = "loop"
       \/ UNCHANGED rpc /\ mpc' = "exit"
    /\ UNCHANGED <<cfgVars, chan, buf, out, data, returned, raw, wire, sent,
                   display, msgs, console, events, calls, termMode,
                   old_term_settings>>

\* lines 306-327: one pass of the loop for the next console event
MKey ==
    /\ mpc = "loop" /\ console # << >>
    /\ LET ev == Head(console)
           g  == get_char(is_win, ev)
           a  == KeyAction(g.ch, telnet, line_ending_bytes)
       IN  /\ console' = Tail(console)
           /\ events' = Append(events, ev)
           /\ \/ /\ g.exc = "KeyboardInterrupt"
                 /\ msgs' = Append(msgs, "Exiting...")
                 /\ mpc' = "finally"
                 /\ UNCHANGED <<readVars, sent, display>>
              \/ /\ g.exc = "Exception"
                 /\ mpc' = "finally"
                 /\ UNCHANGED <<readVars, sent, display, msgs>>
              \/ /\ g.exc = "none"
                 /\ write(a.w)
                 /\ display' = display \o a.echo
                 /\ mpc' = "loop"
                 /\ UNCHANGED msgs
              \/ /\ g.exc = "none"
                 /\ SendRaises
                 /\ mpc' = "finally"
                 /\ UNCHANGED <<readVars, sent, display, msgs>>
    /\ UNCHANGED <<cfgVars, chan, termMode, old_term_settings, calls>>

\* lines 329-334: the finally block restores the terminal on Unix
MRestore ==
    /\ mpc = "finally"
    /\ termMode' = IF is_win THEN termMode ELSE old_term_settings
    /\ calls' = IF is_win THEN calls ELSE [calls EXCEPT !.restore = @ + 1]
    /\ mpc' = "close"
    /\ UNCHANGED <<cfgVars, readVars, chan, sent, display, msgs, console,
                   events, old_term_settings>>

\* line 335 and SockWrapper.close
MClose ==
    /\ mpc = "close"
    /\ chan' = close(chan).chan
    /\ calls' = [calls EXCEPT !.close = @ + 1]
    /\ mpc' = IF close(chan).raised THEN "exit" ELSE "closed"
    /\ UNCHANGED <<cfgVars, readVars, sent, display, msgs, console, events,
                   termMode, old_term_settings>>

\* main returns: the process ends, the daemon reader thread with it
MExit ==
    /\ mpc = "closed"
    /\ mpc' = "exit"
    /\ UNCHANGED <<cfgVars, readVars, chan, sent, display, msgs, console,
                   events, calls, termMode, old_term_settings>>

\* line 29 once the socket is closed: select raises out of read_serial
RSelectRaises ==
    /\ Alive /\ telnet /\ rpc = "poll" /\ chan = "closed"
    /\ rpc' = "raised"
    /\ UNCHANGED <<cfgVars, mainVars, chan, buf, out, data, returned, raw,
                   wire, sent, display, msgs>>

\* lines 35-42 with the serial transport: read(n or 1) returns the bytes
\* that have arrived (an empty read sleeps and polls again)
RSerialRead ==
    /\ Alive /\ ~telnet /\ rpc = "poll" /\ chan = "open"
    /\ \E k \in 1..Len(wire) :
         /\ data' = SubSeq(wire, 1, k)
         /\ returned' = returned \o SubSeq(wire, 1, k)
         /\ raw' = raw \o SubSeq(wire, 1, k)
         /\ wire' = Drop(wire, k)
    /\ rpc' = "show"
    /\ UNCHANGED <<cfgVars, mainVars, chan, buf, out, sent, display, msgs>>

\* lines 35-40 and 72-73 with the serial transport: the port is gone or was
\* closed, ser.read raises SerialException and the reader thread ends
RSerialGone ==
    /\ Alive /\ ~telnet /\ rpc = "poll" /\ chan # "open"
    /\ msgs' = Append(msgs, "Connection closed.")
    /\ rpc' = "dead"
    /\ UNCHANGED <<cfgVars, mainVars, chan, buf, out, data, returned, raw,
                   wire, sent, display>>

ReaderNext ==
    RRecv \/ RIter \/ RReturn \/ RDisplay \/ RExcept \/ RSelectRaises
        \/ RSerialRead \/ RSerialGone

MainNext ==
    MSave \/ MSetCbreak \/ MNoEcho \/ MStartThread \/ MKey \/ MRestore
        \/ MClose \/ MExit

(* ---------------------------------------------------------------------- *)
(* The outbound path alone: nothing arrives from the peer                  *)
(* ---------------------------------------------------------------------- *)
InitOut ==
    /\ InitConfig /\ InitRest /\ InitMain
    /\ size = ReadSize
    /\ chan = "open"
    /\ wire = << >>
    /\ console \in Consoles(is_win)

NextOut == MainNext \/ PeerClose

SpecOut == InitOut /\ [][NextOut]_vars

(* ---------------------------------------------------------------------- *)
(* The whole session                                                       *)
(* ---------------------------------------------------------------------- *)
SessionStreams ==
    { << >>, <<65>>, <<IAC, DO, ECHO>>, <<65, IAC, WILL, SGA>> }

SessionConsoles ==
    { << >>, <<Ev("ch", 97)>>, <<Ev("ch", 97), Ev("ch", 3)>>,
      <<Ev("ch", CR), Ev("int", 0)>>, <<Ev("ch", 127), Ev("err", 0)>> }

\* on Windows: Up alone, and an unmapped scan code followed by 'a'
WinSessionConsoles ==
    { <<Ev("ext", 72)>>, <<Ev("ext", 1), Ev("ch", 97)>> }

Init ==
    /\ InitConfig /\ InitRest /\ InitMain
    /\ size = ReadSize
    /\ chan = "open"
    /\ wire \in SessionStreams
    /\ console \in SessionConsoles
                    \cup (IF is_win THEN WinSessionConsoles ELSE {})

Next == MainNext \/ PeerClose \/ ReaderNext

Spec == Init /\ [][Next]_vars

\* both threads are scheduled by the operating system for as long as they
\* can take a step: the reader loop polls every 0.1 s, main proceeds when
\* get_char has an event to return
FairSpec == Spec /\ WF_vars(ReaderNext) /\ WF_vars(MainNext)

(* ---------------------------------------------------------------------- *)
(* Properties of the negotiation engine (SpecIn)                           *)
(* ---------------------------------------------------------------------- *)
\* the byte strings sent from source src, in order
BytesFrom(src) ==
    LET From(e) == e.src = src
        sel == SelectSeq(sent, From)
    IN  [i \in 1..Len(sel) |-> sel[i].bytes]

Replies == BytesFrom("read")

IsPrefix(a, b) == Len(a) <= Len(b) /\ a = SubSeq(b, 1, Len(a))

\* s is exactly one complete negotiation command of the wire format
IsCommand(s) ==
    /\ Len(s) >= 2 /\ s[1] = IAC
    /\ \/ Len(s) = 2 /\ s[2] \in SimpleCmds \cup {IAC}
       \/ Len(s) = 3 /\ s[2] \in OptCmds
       \/ Len(s) >= 4 /\ s[2] = SB /\ FindSE(s) = Len(s) - 2

\* the literal data bytes of a stream according to the wire format: what is
\* left when every command is taken out and IAC IAC stands for one 255; an
\* incomplete trailing command contributes nothing
RECURSIVE LiteralData(_)
LiteralData(s) ==
    IF s = << >> THEN << >>
    ELSE IF s[1] # IAC THEN <<s[1]>> \o LiteralData(Tail(s))
    ELSE IF Len(s) < 2 THEN << >>
    ELSE IF s[2] = IAC THEN <<IAC>> \o LiteralData(Drop(s, 2))
    ELSE IF s[2] \in OptCmds
      THEN IF Len(s) >= 3 THEN LiteralData(Drop(s, 3)) ELSE << >>
    ELSE IF s[2] = SB
      THEN IF FindSE(s) >= 0 THEN LiteralData(Drop(s, FindSE(s) + 2))
                             ELSE << >>
    ELSE IF s[2] \in SimpleCmds \cup {SE} THEN LiteralData(Drop(s, 2))
    ELSE LiteralData(Tail(s))

\* C1: a complete negotiation command delivered in pieces, with a read after
\* each piece, gives the same returned bytes, the same replies and the same
\* pending buffer as the command delivered whole and read once; and while
\* only IAC and DO/DONT/WILL/WONT have arrived the two bytes stay pending.
C1_SplitEqualsWhole ==
    /\ (rpc = "poll" /\ chan = "open" /\ IsCommand(raw)) =>
          LET whole == ReadLoop(raw, << >>, << >>, ReadSize)
          IN  /\ returned = whole.out
              /\ Replies = whole.replies
              /\ buf = whole.buf
    /\ (rpc \in {"show", "poll"} /\ Len(raw) = 2 /\ raw[1] = IAC
          /\ raw[2] \in OptCmds) => (buf = raw /\ returned = << >>)

\* C2: whatever the chunk boundaries, the bytes returned by read are literal
\* data bytes of the stream in arrival order, never a byte of a command.
C2_OnlyLiteralData == IsPrefix(returned, LiteralData(raw))

\* the parsing loop is about to run an iteration on IAC cmd opt, cmd in cmds
AtOption(cmds) ==
    /\ rpc = "parse" /\ LoopCond(out, buf, ReadSize)
    /\ Len(buf) >= 3 /\ buf[1] = IAC /\ buf[2] \in cmds

\* the step is an iteration of the parsing loop that ran to its end
IterDone == rpc' = "parse" /\ chan' = chan

\* the iteration consumed a 3-byte command, sent rs and returned nothing
Consumes3(rs) ==
    /\ sent' = sent \o [i \in 1..Len(rs) |-> Tagged("read", rs[i])]
    /\ out' = out
    /\ buf' = Drop(buf, 3)

Consumed3(cmds) ==
    /\ Len(raw) = 3 /\ raw[1] = IAC /\ raw[2] \in cmds
    /\ buf = << >> /\ out = << >> /\ returned = << >>

\* C4 as stated: a complete IAC WONT opt or IAC DONT opt is consumed with no
\* reply sent and no byte returned.
C4_NoReply == Consumed3({WONT, DONT}) => Replies = << >>

\* C4: a complete IAC WONT opt is consumed with no reply and no byte
\* returned; a complete IAC DONT opt is answered by exactly one reply,
\* IAC WONT opt, and consumed with no byte returned.
C4_WontSilentDontAnswered ==
    [][ /\ (AtOption({WONT}) /\ IterDone) => Consumes3(<< >>)
        /\ (AtOption({DONT}) /\ IterDone) =>
              Consumes3(<< <<IAC, WONT, buf[3]>> >>)
      ]_vars

C4_Witness ==
    /\ Consumed3({DONT}) /\ rpc = "poll"
    /\ Replies = << <<IAC, WONT, raw[3]>> >>

\* C5: at a command boundary 255,255 gives exactly one literal 255, both
\* bytes are consumed and nothing is sent, whether the pair arrives whole or
\* split (a lone 255 waits in the pending buffer); the second 255 never
\* starts a command.
C5_EscapedIAC ==
    /\ [](( rpc = "poll" /\ Len(raw) >= 2 /\ raw[1] = IAC /\ raw[2] = IAC
            /\ Len(raw) <= 3 ) =>
              /\ returned = <<IAC>> \o LiteralData(Drop(raw, 2))
              /\ Replies = << >>)
    /\ [][ /\ ( rpc = "parse" /\ LoopCond(out, buf, ReadSize)
                /\ Len(buf) >= 2 /\ buf[1] = IAC /\ buf[2] = IAC
                /\ IterDone ) =>
                  /\ out' = Append(out, IAC)
                  /\ buf' = Drop(buf, 2)
                  /\ sent' = sent
           /\ ( rpc = "parse" /\ buf = <<IAC>> ) =>
                  (buf' = buf /\ out' = out /\ sent' = sent)
         ]_vars

C5_Witness ==
    /\ raw = <<IAC, IAC, ECHO>> /\ rpc = "poll"
    /\ returned = <<IAC, ECHO>> /\ buf = << >> /\ Replies = << >>

\* the input with each LF replaced by CR LF and each CR removed
RECURSIVE LfToCrlf(_)
LfToCrlf(s) ==
    IF s = << >> THEN << >>
    ELSE LET last == s[Len(s)]
             rest == LfToCrlf(SubSeq(s, 1, Len(s) - 1))
         IN  IF last = LF THEN rest \o <<CR, LF>>
             ELSE IF last = CR THEN rest
             ELSE Append(rest, last)

Range(s) == {s[i] : i \in 1..Len(s)}

\* C6: for an inbound stream without the marker byte, whatever its chunks,
\* the bytes displayed are the input with LF replaced by CR LF and CR
\* removed, and normalising that output again changes nothing.
C6_Normalized ==
    (rpc = "poll" /\ IAC \notin Range(raw)) =>
        /\ display = LfToCrlf(raw)
        /\ Normalize(display) = display

C6_Witness ==
    /\ rpc = "poll" /\ raw = <<65, LF, CR, LF, 66>>
    /\ display = <<65, CR, LF, CR, LF, 66>>

(* ---------------------------------------------------------------------- *)
(* Properties of the outbound path (SpecOut)                               *)
(* ---------------------------------------------------------------------- *)
\* the step is a pass of the main loop for the next console event
KeyStep == mpc = "loop" /\ console # << >> /\ console' = Tail(console)

\* ... in which the write returned
KeyDone == KeyStep /\ mpc' = "loop"

\* the line ending of the session's configuration: the lineending argument
\* (LF when it is none of CR, LF, CRLF) with the serial transport, CR with
\* the telnet transport, which has no such argument
ConfiguredEnding ==
    IF telnet \/ lineending = "CR" THEN <<CR>>
    ELSE IF lineending = "CRLF" THEN <<CR, LF>>
    ELSE <<LF>>

C8_Backspace ==
    [][ (KeyDone /\ Head(console) \in {Ev("ch", 127), Ev("ch", 8)}) =>
           /\ sent' = Append(sent, Tagged("write", <<8>>))
           /\ display' = display \o <<8, 32, 8>>
           /\ UNCHANGED <<msgs, chan, termMode, old_term_settings, cfgVars,
                          readVars>>
      ]_vars

C8_Witness ==
    /\ telnet /\ mpc = "loop"
    /\ events = <<Ev("ch", 8), Ev("ch", 127)>>
    /\ BytesFrom("write") = << <<8>>, <<8>> >>
    /\ display = <<8, 32, 8, 8, 32, 8>>

\* the byte string of the action decoded from a console event
ActionBytes(ev) ==
    IF ev.k = "ext"
      THEN IF ev.c \in DOMAIN ext_map THEN ext_map[ev.c] ELSE << >>
    ELSE IF ev.c \in {127, 8} THEN <<8>>
    ELSE IF ev.c \in {CR, LF} THEN ConfiguredEnding
    ELSE IF ev.c < 128 THEN <<ev.c>>
    ELSE << >>

\* the console events whose pass of the loop ran to its end: all the events
\* consumed, but for the one that ended the loop
Handled ==
    IF mpc \in {"finally", "close", "closed", "exit"}
      THEN SubSeq(events, 1, Len(events) - 1)
      ELSE events

C10_ModeRestored == mpc = "exit" => termMode = "cooked"

\* an Interrupt: Ctrl-C read by get_char, or SIGINT while it waits
IsInterrupt(ev) == ev.k = "int" \/ (ev.k = "ch" /\ ev.c = 3)

Interrupted == \E i \in 1..Len(events) : IsInterrupt(events[i])

TornDown == {"finally", "close", "closed", "exit"}

\* C11: after an Interrupt the outbound path makes no further write and the
\* teardown runs exactly once: the console mode is restored once (on Unix,
\* where it was changed) and the transport is closed once; close on a closed
\* negotiating transport leaves it closed and does not raise.
C11_InterruptTeardown ==
    /\ [](Interrupted =>
            /\ mpc \in TornDown
            /\ calls.restore <= 1 /\ calls.close <= 1
            /\ mpc = "exit" =>
                  /\ calls = [restore |-> IF is_win THEN 0 ELSE 1,
                              close |-> 1]
                  /\ termMode = "cooked" /\ chan = "closed")
    /\ [](chan = "closed" =>
            close(chan) = [chan |-> "closed", raised |-> FALSE])
    /\ [][Interrupted => UNCHANGED <<sent, console, events>>]_vars

C11_Witness ==
    /\ ~is_win /\ telnet /\ mpc = "exit"
    /\ events = <<Ev("ch", 97), Ev("ch", 3)>>
    /\ BytesFrom("write") = << <<97>> >>
    /\ calls = [restore |-> 1, close |-> 1]
    /\ termMode = "cooked" /\ chan = "closed"

\* the inbound path has reported that the connection is closed
ReportedClosed == \E i \in 1..Len(msgs) : msgs[i] = "Connection closed."

\* C12: with both transports, once the peer has closed the channel (or it
\* has failed) the inbound path eventually reports the closed connection
\* and the whole session terminates, without further user input.
C12_PeerCloseEndsSession ==
    (mpc = "loop" /\ chan = "peerclosed" /\ console = << >>)
        ~> (ReportedClosed /\ mpc = "exit")

\* C13: no anomaly of the inbound byte stream or of the channel gets out of
\* SockWrapper.read: every read returns, and the inbound path keeps running.
C13_ReadNeverRaises == rpc \notin {"raised", "dead"}

\* no byte of s starts a command
DataOnly(s) == \A i \in 1..Len(s) : s[i] # IAC

\* the literal data bytes at the head of the pending buffer
RECURSIVE LeadingData(_)
LeadingData(s) ==
    IF s = << >> \/ s[1] = IAC THEN << >>
    ELSE <<s[1]>> \o LeadingData(Tail(s))

\* C14: every read(size) returns at most size bytes; the data bytes that did
\* not fit stay in the pending buffer in their order and in_waiting counts
\* them; with the reader loop running, every one of them is returned by a
\* later read and displayed, even when nothing more arrives.
C14_AtMostSize ==
    /\ [](Len(out) <= size /\ Len(data) <= size)
    /\ [](DataOnly(raw) =>
            returned \o (IF rpc = "parse" THEN out ELSE << >>) \o buf = raw)
    /\ [](buf # << >> => in_waiting = Len(buf) /\ in_waiting > 0)
    /\ []<>(LeadingData(buf) = << >> /\ display = LfToCrlf(returned))

C14_Witness ==
    /\ size = 1 /\ rpc = "poll" /\ wire = << >>
    /\ raw = <<ECHO, LF, ECHO>>
    /\ returned = <<ECHO, LF>> /\ buf = <<ECHO>>
    /\ display = <<ECHO, CR, LF>>

\* b starts a subnegotiation
HasSB(b) == Len(b) >= 2 /\ b[1] = IAC /\ b[2] = SB

\* the positions in b, behind IAC SB, of an IAC that is followed by SE
Terminators(b) == {i \in 3..(Len(b) - 1) : b[i] = IAC /\ b[i + 1] = SE}

\* C15: an iteration on a buffer that starts with IAC SB removes the span up
\* to and including the first IAC SE, returns none of it and sends nothing,
\* and goes on behind it; with no IAC SE in the buffer the read ends and the
\* buffer is left as it is. However the span is cut into chunks, nothing of
\* an unterminated span is returned and all of it stays pending.
C15_Subnegotiation ==
    /\ [][ (rpc = "parse" /\ LoopCond(out, buf, size) /\ HasSB(buf)) =>
             IF Terminators(buf) # {}
               THEN /\ rpc' = "parse"
                    /\ buf' = Drop(buf, Min(Terminators(buf)) + 1)
                    /\ UNCHANGED <<out, sent, returned, display>>
               ELSE /\ rpc' = "show"
                    /\ data' = out
                    /\ UNCHANGED <<buf, sent, display>>
         ]_vars
    /\ [](HasSB(raw) /\ Terminators(raw) = {} =>
             buf = raw /\ out = << >> /\ returned = << >> /\ Replies = << >>)

C15_Witness ==
    /\ raw = <<IAC, SB, SE, IAC, IAC, SE, LF>>
    /\ wire = << >> /\ rpc = "poll" /\ buf = << >>
    /\ returned = <<LF>> /\ display = <<CR, LF>>
    /\ Replies = << >>

\* a buffer on which the loop may stop to wait: a lone IAC, or IAC SB with
\* no IAC SE behind it yet
Incomplete(b) == b = <<IAC>> \/ (HasSB(b) /\ Terminators(b) = {})

\* the second byte of b is none that read knows after IAC
Unrecognized(b) ==
    /\ Len(b) >= 2 /\ b[1] = IAC
    /\ b[2] \notin {IAC, SB, SE} \cup SimpleCmds \cup OptCmds

\* C16: every read terminates: whenever the loop of read is to run another
\* iteration on its pending buffer, that iteration either makes the buffer
\* strictly shorter (after IAC and an unrecognized byte it drops the IAC
\* alone) or leaves the loop, and it leaves the loop with bytes pending only
\* on a sequence that is not complete yet.
C16_ReadTerminates ==
    (rpc = "parse" /\ LoopCond(out, buf, size)) =>
        LET s == ReadStep(buf)
        IN  /\ s.brk \/ Len(s.buf) < Len(buf)
            /\ s.brk => s.buf = buf /\ Incomplete(buf)
            /\ Unrecognized(buf) =>
                  ~s.brk /\ s.buf = Tail(buf) /\ s.emit = << >>
                         /\ s.reply = << >>

C16_Witness ==
    /\ raw = <<IAC, ECHO, LF>> /\ wire = << >>
    /\ rpc = "poll" /\ buf = << >>
    /\ returned = <<ECHO, LF>>

\* the console event at hand is an extended key of the table of get_char
MappedKey ==
    /\ is_win /\ console # << >>
    /\ Head(console).k = "ext" /\ Head(console).c \in DOMAIN ext_map

\* C17: the whole escape sequence of a mapped extended key goes to the
\* transport in one write call: it is one entry of the sequence of sends,
\* whatever the reader thread sends before or after it.
C17_EscapeInOneWrite ==
    [][ (KeyDone /\ MappedKey) =>
           /\ sent' = Append(sent, Tagged("write", ext_map[Head(console).c]))
           /\ Len(ext_map[Head(console).c]) >= 3
      ]_vars

C17_Witness ==
    /\ is_win /\ telnet /\ events = <<Ev("ext", 72)>>
    /\ raw = <<IAC, DO, ECHO>>
    /\ sent = InitSent(TRUE)
                \o << Tagged("write", <<ESC, 91, 65>>),
                      Tagged("read", <<IAC, WILL, ECHO>>) >>

\* the console event at hand is an extended key that is not in the table
UnmappedKey ==
    /\ is_win /\ console # << >>
    /\ Head(console).k = "ext" /\ Head(console).c \notin DOMAIN ext_map

\* C18 as stated: an unmapped extended key makes no write call and no change
\* of the display, and the loop goes on.
C18_NoWriteCall ==
    [][(KeyDone /\ UnmappedKey) => UNCHANGED <<sent, display>>]_vars

\* C18: an unmapped extended key makes one write call, of the empty byte
\* string, so no byte goes to the transport; the display, the messages, the
\* terminal and the reading side are left as they are, and the loop goes on
\* with the next console event.
C18_EmptyWrite ==
    [][ (KeyDone /\ UnmappedKey) =>
           /\ sent' = Append(sent, Tagged("write", << >>))
           /\ UNCHANGED <<display, msgs, chan, termMode, readVars>>
      ]_vars

C18_Witness ==
    /\ is_win /\ mpc = "loop"
    /\ events = <<Ev("ext", 1), Ev("ch", 97)>>
    /\ BytesFrom("write") = << << >>, <<97>> >>
    /\ display = << >> /\ msgs = << >>

\* C19: a write touches nothing of the reading side: over every pass of the
\* loop of main, whatever the reader thread has done before and does after,
\* the pending buffer, the bytes of the read in progress, the bytes returned
\* so far and the bytes still to be received are what they were.
C19_WriteLeavesBuffer ==
    [][KeyStep => UNCHANGED <<buf, out, data, returned, raw, wire, rpc>>]_vars

C19_Witness ==
    /\ telnet /\ mpc = "loop" /\ events = <<Ev("ch", 97)>>
    /\ BytesFrom("write") = << <<97>> >>
    /\ raw = <<65, IAC>> /\ buf = <<IAC>> /\ returned = <<65>>
    /\ rpc = "poll"

\* C20: once the teardown has restored the console mode and closed the
\* transport, the reader thread, still running, does nothing that can be
\* observed: it writes no data and no message, and sends nothing.
C20_QuietAfterTeardown ==
    [][mpc = "closed" => UNCHANGED <<display, msgs, sent>>]_vars

====
